---------------------------- MODULE Spec2Model ----------------------------
(***************************************************************************)
(* The blackjack round engine of src/app/api/game/actions.ts and           *)
(* src/lib/game-logic.ts: the persisted session, the five server actions   *)
(* and the view they return.                                               *)
(*                                                                         *)
(* Specifications.                                                         *)
(*  - Spec: the actions invoked one at a time; FairSpec adds that a        *)
(*    playerStand under way runs to its end.                               *)
(*  - StoreFailureSpec: Spec with updateSession throwing in playerStand.   *)
(*  - OverlapSpec: two playerHit / playerStand requests overlapping on     *)
(*    one session.                                                         *)
(*  - ScoreSpec, ResultSpec: calculateScore and determineGameResult        *)
(*    applied to hands drawn from bounded sets.                            *)
(*                                                                         *)
(* Conventions.                                                            *)
(*  - JavaScript arrays are sequences; array index i is sequence index     *)
(*    i + 1.  pop() takes the last element.                                *)
(*  - An object property that is undefined is a field the record does not  *)
(*    have (as in the JSON a server action returns).                       *)
(*  - gameResult null is the string "null".                                *)
(*  - Identifiers are naturals: 0 is the empty string, uuidv4() yields     *)
(*    1, 2, 3, ...; a caller-supplied sessionId is ClientSessionId, and    *)
(*    an omitted one is NoSessionId.                                       *)
(*  - Seeds are naturals; generateSeed(n) yields the seeds of Seeds(n)     *)
(*    one after the other, never one it has yielded before.               *)
(*  - The per-card render key `id` (a uuidv4 per projected card) carries   *)
(*    no session data and is left out of the projected cards.              *)
(*  - Money is integral; bets are drawn from even amounts so that the      *)
(*    3:2 payout bet * 2.5 is integral too.                                *)
(***************************************************************************)
EXTENDS Integers, Sequences, FiniteSets, TLC

\* ------------------------------------------------------------------ bounds
\* Number of distinct seeds generateSeed can yield per byte length.
MaxSeed == 4
\* Number of deals (bets accepted by placeBet) in one behaviour.
MaxDeals == 2
\* Longest hand handed to calculateScore and determineGameResult on their own.
MaxHand == 4

\* --------------------------------------------------------------- constants
DefaultBalance == 1000
ServerSeedBytes == 32
ClientSeedBytes == 16
DealerStandsOn == 17

NoSessionId == 0
ClientSessionId == 900
NoSession == [absent |-> TRUE]

\* Inputs the caller may supply.
InitialBalances == {2}
BetInputs == {-2, 0, 2, 4}
SessionIdInputs == {NoSessionId, ClientSessionId}

\* ------------------------------------------------------------ card domain
suits == <<"hearts", "diamonds", "clubs", "spades">>
ranks == <<"A", "2", "3", "4", "5", "6", "7", "8", "9", "10", "J", "Q", "K">>

\* The ordered deck: suits outer loop, ranks inner loop.
orderedDeck ==
  [k \in 1..(Len(suits) * Len(ranks)) |->
     [suit |-> suits[((k - 1) \div Len(ranks)) + 1],
      rank |-> ranks[((k - 1) % Len(ranks)) + 1]]]

DeckSize == Len(orderedDeck)

\* parseInt(rank, 10) on the numeric ranks.
parseInt(rank) ==
  CASE rank = "2" -> 2 [] rank = "3" -> 3 [] rank = "4" -> 4
    [] rank = "5" -> 5 [] rank = "6" -> 6 [] rank = "7" -> 7
    [] rank = "8" -> 8 [] rank = "9" -> 9 [] rank = "10" -> 10

\* card.hidden as a truth value: a card straight from the deck has no
\* hidden property, which is falsy.
IsHidden(card) == ("hidden" \in DOMAIN card) /\ card.hidden

\* WithHidden dealing every card face up.
WithHidden_FaceUp(card, h) == [suit |-> card.suit, rank |-> card.rank, hidden |-> FALSE]

\* { ...card, hidden: h }
WithHidden(card, h) == [suit |-> card.suit, rank |-> card.rank, hidden |-> h]

\* ------------------------------------------------- provably-fair collaborators
\* lib/provably-fair is not part of the sources; these follow the written
\* contract: a seed pool per byte length, a one-way injective hash, and a
\* keyed deterministic byte stream driving a Fisher-Yates shuffle of 0..51.
Seeds(byteLength) == {byteLength * 100 + k : k \in 1..MaxSeed}

hashSeed(seed) == (seed * 7919 + 104729) % 1000003

StreamStart(serverSeed, clientSeed) == (serverSeed * 111 + clientSeed * 741) % 65521

StreamNext(h) == (h * 75 + 74) % 65537

Swap(s, i, j) == [s EXCEPT ![i] = s[j], ![j] = s[i]]

RECURSIVE FisherYates(_, _, _)
FisherYates(indices, i, h) ==
  IF i <= 1 THEN indices
  ELSE LET j == (h % i) + 1
       IN FisherYates(Swap(indices, i, j), i - 1, StreamNext(h))

\* The shuffle indices, a permutation of 0..51.
generateShuffledDeck(serverSeed, clientSeed) ==
  FisherYates([k \in 1..DeckSize |-> k - 1], DeckSize,
              StreamNext(StreamStart(serverSeed, clientSeed)))

\* ---------------------------------------------------------- game-logic.ts
createProvablyFairDeck(serverSeed, clientSeed) ==
  LET shuffleIndices == generateShuffledDeck(serverSeed, clientSeed)
  IN [k \in 1..Len(shuffleIndices) |-> orderedDeck[shuffleIndices[k] + 1]]

\* createProvablyFairDeck tabulated with decks of five cards.
provablyFairDeck_FiveCards ==
  [serverSeed \in Seeds(ServerSeedBytes), clientSeed \in Seeds(ClientSeedBytes) |->
     SubSeq(createProvablyFairDeck(serverSeed, clientSeed), DeckSize - 4, DeckSize)]

\* createProvablyFairDeck tabulated over the seed pools: the deck depends on
\* the seed pair alone.
provablyFairDeck ==
  [serverSeed \in Seeds(ServerSeedBytes), clientSeed \in Seeds(ClientSeedBytes) |->
     createProvablyFairDeck(serverSeed, clientSeed)]

\* The first loop of calculateScore: <<score, aces>> after summing.
RECURSIVE SumCards(_, _, _, _)
SumCards(cards, k, score, aces) ==
  IF k > Len(cards) THEN <<score, aces>>
  ELSE IF cards[k].rank = "A" THEN SumCards(cards, k + 1, score + 11, aces + 1)
  ELSE IF cards[k].rank \in {"K", "Q", "J"} THEN SumCards(cards, k + 1, score + 10, aces)
  ELSE SumCards(cards, k + 1, score + parseInt(cards[k].rank), aces)

\* The ace loop as a single if: at most one ace counted as 1.
AdjustAces_Once(score, aces) ==
  IF score > 21 /\ aces > 0 THEN score - 10 ELSE score

\* The second loop: while (score > 21 && aces > 0) { score -= 10; aces-- }
RECURSIVE AdjustAces(_, _)
AdjustAces(score, aces) ==
  IF score > 21 /\ aces > 0 THEN AdjustAces(score - 10, aces - 1) ELSE score

calculateScore(cards) ==
  LET s == SumCards(cards, 1, 0, 0) IN AdjustAces(s[1], s[2])

convertToClientCards(cards, markNewCard, isInitialDeal, hideDealer) ==
  [k \in 1..Len(cards) |->
     IF IsHidden(cards[k])
     THEN [hidden |-> TRUE,
           isNew |-> markNewCard /\ k = Len(cards),
           isInitialDeal |-> isInitialDeal]
     ELSE [suit |-> cards[k].suit,
           rank |-> cards[k].rank,
           hidden |-> hideDealer /\ (k - 1) > 0,
           isNew |-> markNewCard /\ k = Len(cards),
           isInitialDeal |-> isInitialDeal]]

\* determineGameResult comparing the totals before it looks for a natural.
determineGameResult_TotalsFirst(playerCards, dealerCards) ==
  LET playerScore == calculateScore(playerCards)
      dealerScore == calculateScore(dealerCards)
  IN IF playerScore > 21 THEN "bust"
     ELSE IF dealerScore > 21 THEN "dealerBust"
     ELSE IF playerScore > dealerScore THEN "playerWin"
     ELSE IF dealerScore > playerScore THEN "dealerWin"
     ELSE IF playerScore = 21 /\ Len(playerCards) = 2
          THEN (IF dealerScore = 21 /\ Len(dealerCards) = 2 THEN "push" ELSE "blackjack")
     ELSE "push"

determineGameResult(playerCards, dealerCards) ==
  LET playerScore == calculateScore(playerCards)
      dealerScore == calculateScore(dealerCards)
  IN IF playerScore > 21 THEN "bust"
     ELSE IF dealerScore > 21 THEN "dealerBust"
     ELSE IF playerScore = 21 /\ Len(playerCards) = 2
          THEN (IF dealerScore = 21 /\ Len(dealerCards) = 2 THEN "push" ELSE "blackjack")
     ELSE IF playerScore > dealerScore THEN "playerWin"
     ELSE IF dealerScore > playerScore THEN "dealerWin"
     ELSE "push"

\* calculatePayout with a natural paid even money.
calculatePayout_EvenMoneyBlackjack(bet, result) ==
  CASE result \in {"playerWin", "dealerBust", "blackjack"} -> bet * 2
    [] result = "push" -> bet
    [] OTHER -> 0

calculatePayout(bet, result) ==
  CASE result \in {"playerWin", "dealerBust"} -> bet * 2
    [] result = "push" -> bet
    [] result = "blackjack" -> (bet * 5) \div 2
    [] OTHER -> 0

\* ------------------------------------------------------------------ state
VARIABLES
  store,       \* the persisted session (the session cookie), or NoSession
  view,        \* the ClientGameState last returned to the caller
  lastAction,  \* the server action that returned it
  pc,          \* "idle", or "dealerTurn" inside playerStand's dealer loop
  generated,   \* the seeds generateSeed has yielded so far
  uuid,        \* the number of identifiers uuidv4 has yielded so far
  dealt,       \* the <<serverSeed, clientSeed>> of every deck dealt so far
  inflight,    \* per overlapping request: its action and its in-memory session
  call         \* the arguments and the result of a game-logic function applied on its own

vars == <<store, view, lastAction, pc, generated, uuid, dealt, inflight, call>>

\* pop() taking the first element.
Last_First(s) == s[1]

Last(s) == s[Len(s)]
ButLast(s) == SubSeq(s, 1, Len(s) - 1)

\* provablyFairData publishing the server seed as its own commitment.
provablyFairData_Unhashed(gameId, serverSeed, clientSeed) ==
  [gameId |-> gameId,
   serverSeed |-> serverSeed,
   hashedServerSeed |-> serverSeed,
   clientSeed |-> clientSeed,
   nonce |-> 0,
   completed |-> FALSE]

\* The ProvablyFairData literal built by initializeGame, placeBet and newRound.
provablyFairData(gameId, serverSeed, clientSeed) ==
  [gameId |-> gameId,
   serverSeed |-> serverSeed,
   hashedServerSeed |-> hashSeed(serverSeed),
   clientSeed |-> clientSeed,
   nonce |-> 0,
   completed |-> FALSE]

\* The GameSession literal built by initializeGame and placeBet.
newSession(id, balance, gameId, serverSeed, clientSeed) ==
  [id |-> id,
   deck |-> <<>>,
   dealerCards |-> <<>>,
   playerCards |-> <<>>,
   gameState |-> "betting",
   balance |-> balance,
   bet |-> 0,
   gameResult |-> "null",
   provablyFair |-> provablyFairData(gameId, serverSeed, clientSeed)]

\* Reveal that leaves the cards as they are.
Reveal_Nothing(cards) == cards

\* cards.map(card => ({ ...card, hidden: false }))
Reveal(cards) == [k \in 1..Len(cards) |-> WithHidden(cards[k], FALSE)]

\* cards.map(card => card.hidden ? { ...card, hidden: false } : card)
Unhide(cards) ==
  [k \in 1..Len(cards) |-> IF IsHidden(cards[k]) THEN WithHidden(cards[k], FALSE) ELSE cards[k]]

createClientGameState(session, markNewCard, isInitialDeal, hideDealer) ==
  LET pf == session.provablyFair
      provablyFairView ==
        IF pf.completed
        THEN [gameId |-> pf.gameId,
              clientSeed |-> pf.clientSeed,
              hashedServerSeed |-> pf.hashedServerSeed,
              serverSeed |-> pf.serverSeed,
              nonce |-> pf.nonce,
              completed |-> pf.completed]
        ELSE [gameId |-> pf.gameId,
              clientSeed |-> pf.clientSeed,
              hashedServerSeed |-> pf.hashedServerSeed,
              nonce |-> pf.nonce,
              completed |-> pf.completed]
  IN [sessionId |-> session.id,
      dealerCards |-> convertToClientCards(session.dealerCards, markNewCard, isInitialDeal, hideDealer),
      playerCards |-> convertToClientCards(session.playerCards, markNewCard, isInitialDeal, FALSE),
      gameState |-> session.gameState,
      balance |-> session.balance,
      bet |-> session.bet,
      dealerScore |-> IF hideDealer THEN 0 ELSE calculateScore(Unhide(session.dealerCards)),
      playerScore |-> calculateScore(session.playerCards),
      gameResult |-> session.gameResult,
      message |-> "",
      provablyFair |-> provablyFairView]

\* The literal returned by playerHit, playerStand and newRound without a session.
SessionExpiredView ==
  [sessionId |-> NoSessionId,
   dealerCards |-> <<>>,
   playerCards |-> <<>>,
   gameState |-> "betting",
   balance |-> DefaultBalance,
   bet |-> 0,
   dealerScore |-> 0,
   playerScore |-> 0,
   gameResult |-> "null",
   message |-> "Session expired. Please start a new game."]

\* WithMessage dropping the message.
WithMessage_Blank(v, message) == v

WithMessage(v, message) == [v EXCEPT !.message = message]

NoView == [message |-> "no action yet"]

\* The requests that may overlap on one session, and a request not in flight.
Requests == {"a", "b"}
NoRequest == [op |-> "none"]

\* No game-logic function applied on its own.
NoCall == [fn |-> "none"]

\* No session stored, no action invoked, no request in flight.
NoSessionYet ==
  /\ store = NoSession
  /\ view = NoView
  /\ lastAction = "none"
  /\ pc = "idle"
  /\ generated = {}
  /\ uuid = 0
  /\ dealt = <<>>
  /\ inflight = [r \in Requests |-> NoRequest]

Init ==
  /\ NoSessionYet
  /\ call = NoCall

\* ---------------------------------------------------------------- actions
\* generateSeed(byteLength): the next seed of its pool.  Which seed comes out
\* is immaterial to the engine; that it was never yielded before is not.
Unused(byteLength) == Seeds(byteLength) \ generated

generateSeed(byteLength) ==
  CHOOSE s \in Unused(byteLength) : \A t \in Unused(byteLength) : s <= t

\* The pair <<generateSeed(32), generateSeed(16)>> each record is built from,
\* while the pools last.
FreshSeeds ==
  IF Unused(ServerSeedBytes) = {} \/ Unused(ClientSeedBytes) = {}
  THEN {}
  ELSE {<<generateSeed(ServerSeedBytes), generateSeed(ClientSeedBytes)>>}

\* The body of initializeGame: drop the cookie, build the record and the
\* session (gameId is the first uuidv4, the session id the second), persist,
\* project.
initializeGameBody(initialBalance) ==
  \E seeds \in FreshSeeds :
    LET session == newSession(uuid + 2, initialBalance, uuid + 1, seeds[1], seeds[2])
    IN /\ store' = session
       /\ view' = createClientGameState(session, FALSE, FALSE, FALSE)
       /\ generated' = generated \cup {seeds[1], seeds[2]}
       /\ uuid' = uuid + 2

initializeGame(initialBalance) ==
  /\ pc = "idle"
  /\ initializeGameBody(initialBalance)
  /\ lastAction' = "initializeGame"
  /\ UNCHANGED <<pc, dealt, inflight, call>>

\* placeBetOn dealing both dealer cards face up.
placeBetOn_HoleCardVisible(session, bet) ==
  IF bet <= 0 \/ bet > session.balance
  THEN /\ store' = session
       /\ view' = WithMessage(createClientGameState(session, FALSE, FALSE, FALSE),
                              "Invalid bet amount")
       /\ UNCHANGED dealt
  ELSE LET deck == provablyFairDeck[session.provablyFair.serverSeed,
                                   session.provablyFair.clientSeed]
           n == Len(deck)
           after == [session EXCEPT
                       !.deck = SubSeq(deck, 1, n - 4),
                       !.bet = bet,
                       !.balance = session.balance - bet,
                       !.gameState = "playing",
                       !.gameResult = "null",
                       !.dealerCards = <<WithHidden(deck[n], FALSE),
                                         WithHidden(deck[n - 1], FALSE)>>,
                       !.playerCards = <<WithHidden(deck[n - 2], FALSE),
                                         WithHidden(deck[n - 3], FALSE)>>]
       IN /\ Len(dealt) < MaxDeals
          /\ store' = after
          /\ view' = createClientGameState(after, FALSE, TRUE, FALSE)
          /\ dealt' = Append(dealt, <<session.provablyFair.serverSeed,
                                      session.provablyFair.clientSeed>>)

\* placeBet from the bet validation on, for the session it loaded or created.
\* Every session the code builds has a provablyFair record, so the deck is
\* always the provably-fair one.
placeBetOn(session, bet) ==
  IF bet <= 0 \/ bet > session.balance
  THEN /\ store' = session
       /\ view' = WithMessage(createClientGameState(session, FALSE, FALSE, FALSE),
                              "Invalid bet amount")
       /\ UNCHANGED dealt
  ELSE LET deck == provablyFairDeck[session.provablyFair.serverSeed,
                                   session.provablyFair.clientSeed]
           n == Len(deck)
           after == [session EXCEPT
                       !.deck = SubSeq(deck, 1, n - 4),
                       !.bet = bet,
                       !.balance = session.balance - bet,
                       !.gameState = "playing",
                       !.gameResult = "null",
                       !.dealerCards = <<WithHidden(deck[n], FALSE),
                                         WithHidden(deck[n - 1], TRUE)>>,
                       !.playerCards = <<WithHidden(deck[n - 2], FALSE),
                                         WithHidden(deck[n - 3], FALSE)>>]
       IN /\ Len(dealt) < MaxDeals
          /\ store' = after
          /\ view' = createClientGameState(after, FALSE, TRUE, FALSE)
          /\ dealt' = Append(dealt, <<session.provablyFair.serverSeed,
                                      session.provablyFair.clientSeed>>)

placeBet(bet, sessionId) ==
  /\ pc = "idle"
  /\ lastAction' = "placeBet"
  /\ UNCHANGED <<pc, inflight, call>>
  /\ IF store = NoSession /\ sessionId # NoSessionId
     THEN \E seeds \in FreshSeeds :
            /\ placeBetOn(newSession(sessionId, DefaultBalance, uuid + 1, seeds[1], seeds[2]), bet)
            /\ generated' = generated \cup {seeds[1], seeds[2]}
            /\ uuid' = uuid + 1
     ELSE IF store = NoSession
     THEN initializeGameBody(DefaultBalance) /\ UNCHANGED dealt
     ELSE placeBetOn(store, bet) /\ UNCHANGED <<generated, uuid>>

\* playerHit falling back to initializeGame() without a session, as placeBet
\* and newRound do.
playerHit_Initializes(sessionId) ==
  /\ pc = "idle"
  /\ lastAction' = "playerHit"
  /\ UNCHANGED <<pc, dealt, inflight, call>>
  /\ IF store = NoSession
     THEN initializeGameBody(DefaultBalance)
     ELSE IF store.gameState # "playing"
     THEN /\ view' = WithMessage(createClientGameState(store, FALSE, FALSE, FALSE),
                                 "Invalid game state for hit action")
          /\ UNCHANGED <<store, generated, uuid>>
     ELSE LET newCard == Last(store.deck)
              drawn == [store EXCEPT
                          !.deck = ButLast(store.deck),
                          !.playerCards = Append(store.playerCards, WithHidden(newCard, FALSE))]
              after == IF calculateScore(drawn.playerCards) > 21
                       THEN [drawn EXCEPT
                               !.dealerCards = Reveal(drawn.dealerCards),
                               !.gameResult = "bust",
                               !.gameState = "gameOver"]
                       ELSE drawn
          IN /\ store' = after
             /\ view' = createClientGameState(after, TRUE, FALSE, FALSE)
             /\ UNCHANGED <<generated, uuid>>

playerHit(sessionId) ==
  /\ pc = "idle"
  /\ lastAction' = "playerHit"
  /\ UNCHANGED <<pc, generated, uuid, dealt, inflight, call>>
  /\ IF store = NoSession
     THEN view' = SessionExpiredView /\ UNCHANGED store
     ELSE IF store.gameState # "playing"
     THEN /\ view' = WithMessage(createClientGameState(store, FALSE, FALSE, FALSE),
                                 "Invalid game state for hit action")
          /\ UNCHANGED store
     ELSE LET newCard == Last(store.deck)
              drawn == [store EXCEPT
                          !.deck = ButLast(store.deck),
                          !.playerCards = Append(store.playerCards, WithHidden(newCard, FALSE))]
              after == IF calculateScore(drawn.playerCards) > 21
                       THEN [drawn EXCEPT
                               !.dealerCards = Reveal(drawn.dealerCards),
                               !.gameResult = "bust",
                               !.gameState = "gameOver"]
                       ELSE drawn
          IN /\ store' = after
             /\ view' = createClientGameState(after, TRUE, FALSE, FALSE)

\* playerStand up to its first await inside the dealer's turn: load, reject
\* or self-heal, reveal the dealer's cards, persist gameState dealerTurn.
playerStand(sessionId) ==
  /\ pc = "idle"
  /\ lastAction' = "playerStand"
  /\ UNCHANGED <<generated, uuid, dealt, inflight, call>>
  /\ IF store = NoSession
     THEN view' = SessionExpiredView /\ UNCHANGED <<store, pc>>
     ELSE IF /\ store.gameState # "playing"
             /\ ~(/\ Len(store.playerCards) > 0
                  /\ Len(store.dealerCards) > 0
                  /\ store.gameResult = "null")
     THEN /\ view' = WithMessage(createClientGameState(store, FALSE, FALSE, FALSE),
                                 "Invalid game state for stand action. Please start a new game.")
          /\ UNCHANGED <<store, pc>>
     ELSE /\ store' = [store EXCEPT
                         !.dealerCards = Reveal(store.dealerCards),
                         !.gameState = "dealerTurn"]
          /\ pc' = "dealerTurn"
          /\ UNCHANGED view

\* dealerDraw with the loop running while (dealerScore <= 17).
dealerDraw_DrawsOn17 ==
  /\ pc = "dealerTurn"
  /\ calculateScore(store.dealerCards) <= DealerStandsOn
  /\ store' = [store EXCEPT
                 !.deck = ButLast(store.deck),
                 !.dealerCards = Append(store.dealerCards, Last(store.deck))]
  /\ UNCHANGED <<view, lastAction, pc, generated, uuid, dealt, inflight, call>>

\* One iteration of while (dealerScore < 17): pop, push, persist.
dealerDraw ==
  /\ pc = "dealerTurn"
  /\ calculateScore(store.dealerCards) < DealerStandsOn
  /\ store' = [store EXCEPT
                 !.deck = ButLast(store.deck),
                 !.dealerCards = Append(store.dealerCards, Last(store.deck))]
  /\ UNCHANGED <<view, lastAction, pc, generated, uuid, dealt, inflight, call>>

\* The session as playerStand leaves it once the loop exits: resolved, paid,
\* its record completed.
settled(session) ==
  LET gameResult == determineGameResult(session.playerCards, session.dealerCards)
  IN [session EXCEPT
        !.gameResult = gameResult,
        !.gameState = "gameOver",
        !.balance = IF gameResult # "dealerWin" /\ gameResult # "bust"
                    THEN session.balance + calculatePayout(session.bet, gameResult)
                    ELSE session.balance,
        !.provablyFair.completed = TRUE]

\* The rest of playerStand once the loop exits: settle, persist, project.
dealerSettle ==
  /\ pc = "dealerTurn"
  /\ ~(calculateScore(store.dealerCards) < DealerStandsOn)
  /\ store' = settled(store)
  /\ view' = createClientGameState(store', FALSE, FALSE, FALSE)
  /\ pc' = "idle"
  /\ UNCHANGED <<lastAction, generated, uuid, dealt, inflight, call>>

newRound(sessionId) ==
  /\ pc = "idle"
  /\ lastAction' = "newRound"
  /\ UNCHANGED <<pc, dealt, inflight, call>>
  /\ IF store = NoSession /\ sessionId # NoSessionId
     THEN view' = SessionExpiredView /\ UNCHANGED <<store, generated, uuid>>
     ELSE IF store = NoSession
     THEN initializeGameBody(DefaultBalance)
     ELSE \E seeds \in FreshSeeds :
            LET currentBet == store.bet
                after == [store EXCEPT
                            !.gameState = "betting",
                            !.bet = 0,
                            !.gameResult = "null",
                            !.dealerCards = <<>>,
                            !.playerCards = <<>>,
                            !.provablyFair = provablyFairData(uuid + 1, seeds[1], seeds[2])]
            IN /\ store' = after
               /\ view' = [createClientGameState(after, FALSE, FALSE, FALSE)
                             EXCEPT !.bet = currentBet]
               /\ generated' = generated \cup {seeds[1], seeds[2]}
               /\ uuid' = uuid + 1

\* The sessionId argument is read only when no session is stored (placeBet,
\* newRound) or not at all (playerHit, playerStand); with a session stored
\* one value stands for all.
SessionIdsRead == IF store = NoSession THEN SessionIdInputs ELSE {ClientSessionId}

Next ==
  \/ \E initialBalance \in InitialBalances : initializeGame(initialBalance)
  \/ \E bet \in BetInputs, sessionId \in SessionIdsRead : placeBet(bet, sessionId)
  \/ \E sessionId \in SessionIdsRead : playerHit(sessionId)
  \/ \E sessionId \in SessionIdsRead : playerStand(sessionId)
  \/ dealerDraw
  \/ dealerSettle
  \/ \E sessionId \in SessionIdsRead : newRound(sessionId)

Spec == Init /\ [][Next]_vars

\* The scheduling of one request: once playerStand is inside the dealer's
\* turn, the runtime runs its loop and its settlement to the end.
FairSpec == Spec /\ WF_vars(dealerDraw \/ dealerSettle)

\* ------------------------------------------------- the session store failing
\* lib/session-utils is not part of the sources.  By the written contract the
\* store is a load / persist collaborator that may be unavailable; updateSession
\* then throws, the action is abandoned where it stands, and the caller gets
\* an error in place of a view.
ActionFailed == [message |-> "store unavailable"]

\* updateSession throwing in playerStand before the dealer's turn: at the
\* self-heal persist, which leaves the store as loaded, or at the persist of
\* the reveal, which leaves it as loaded or as self-healed.
updateSessionThrowsBeforeDealerTurn ==
  /\ pc = "idle"
  /\ store # NoSession
  /\ \/ store.gameState = "playing"
     \/ /\ Len(store.playerCards) > 0
        /\ Len(store.dealerCards) > 0
        /\ store.gameResult = "null"
  /\ \/ store' = store
     \/ store' = [store EXCEPT !.gameState = "playing"]
  /\ view' = ActionFailed
  /\ lastAction' = "playerStand"
  /\ UNCHANGED <<pc, generated, uuid, dealt, inflight, call>>

\* updateSession throwing inside the dealer's turn, after a draw or at the
\* settlement: the store keeps what the last persist that succeeded wrote.
updateSessionThrowsInDealerTurn ==
  /\ pc = "dealerTurn"
  /\ pc' = "idle"
  /\ view' = ActionFailed
  /\ UNCHANGED <<store, lastAction, generated, uuid, dealt, inflight, call>>

StoreFailureNext ==
  \/ Next
  \/ updateSessionThrowsBeforeDealerTurn
  \/ updateSessionThrowsInDealerTurn

StoreFailureSpec == Init /\ [][StoreFailureNext]_vars

\* ------------------------------------------------------ overlapping requests
\* Two invocations of playerHit or playerStand on one session, each with the
\* session object getSession handed it.  Nothing in the actions orders one
\* request's awaits against the other's, and updateSession writes whatever
\* the request holds in memory.  A step is the code of a request from one
\* await on the store to the next.

\* playerHit's draw and bust check on the session it holds.
hitOn(session) ==
  LET newCard == Last(session.deck)
      drawn == [session EXCEPT
                  !.deck = ButLast(session.deck),
                  !.playerCards = Append(session.playerCards, WithHidden(newCard, FALSE))]
  IN IF calculateScore(drawn.playerCards) > 21
     THEN [drawn EXCEPT
             !.dealerCards = Reveal(drawn.dealerCards),
             !.gameResult = "bust",
             !.gameState = "gameOver"]
     ELSE drawn

\* playerStand's state check: neither playing nor self-healed.
standRejects(session) ==
  /\ session.gameState # "playing"
  /\ ~(/\ Len(session.playerCards) > 0
       /\ Len(session.dealerCards) > 0
       /\ session.gameResult = "null")

\* playerStand's reveal on the session it holds.
revealOn(session) ==
  [session EXCEPT !.dealerCards = Reveal(session.dealerCards), !.gameState = "dealerTurn"]

\* One iteration of the dealer loop on the session it holds.
dealerDrawOn(session) ==
  [session EXCEPT
     !.deck = ButLast(session.deck),
     !.dealerCards = Append(session.dealerCards, Last(session.deck))]

NoneInFlight == \A r \in Requests : inflight[r] = NoRequest

\* const session = await getSession(): request r of action op starts.  base
\* records the session the first of the two requests loaded, for comparison
\* with the serial orders.
getSession(r, op) ==
  /\ store # NoSession
  /\ inflight[r] = NoRequest
  /\ inflight' = [inflight EXCEPT ![r] =
                    [op |-> op,
                     at |-> "loaded",
                     session |-> store,
                     base |-> IF NoneInFlight
                              THEN store
                              ELSE inflight[CHOOSE q \in Requests : inflight[q] # NoRequest].base]]
  /\ UNCHANGED <<store, view, lastAction, pc, generated, uuid, dealt, call>>

\* playerHit from its state check to its return.
hitReturn(r) ==
  /\ inflight[r].op = "playerHit"
  /\ inflight[r].at = "loaded"
  /\ IF inflight[r].session.gameState # "playing"
     THEN /\ view' = WithMessage(createClientGameState(inflight[r].session, FALSE, FALSE, FALSE),
                                 "Invalid game state for hit action")
          /\ UNCHANGED store
     ELSE /\ store' = hitOn(inflight[r].session)
          /\ view' = createClientGameState(store', TRUE, FALSE, FALSE)
  /\ inflight' = [inflight EXCEPT ![r].at = "done"]
  /\ lastAction' = "playerHit"
  /\ UNCHANGED <<pc, generated, uuid, dealt, call>>

\* playerStand's self-heal: a session that is not playing but has both hands
\* and no result is set to playing and persisted.
standHeal(r) ==
  /\ inflight[r].op = "playerStand"
  /\ inflight[r].at = "loaded"
  /\ inflight[r].session.gameState # "playing"
  /\ ~standRejects(inflight[r].session)
  /\ store' = [inflight[r].session EXCEPT !.gameState = "playing"]
  /\ inflight' = [inflight EXCEPT ![r].session = store']
  /\ lastAction' = "playerStand"
  /\ UNCHANGED <<view, pc, generated, uuid, dealt, call>>

\* playerStand from its state check, on a session that is playing or is
\* rejected, to the persist of the reveal.
standReveal(r) ==
  /\ inflight[r].op = "playerStand"
  /\ inflight[r].at = "loaded"
  /\ inflight[r].session.gameState = "playing" \/ standRejects(inflight[r].session)
  /\ IF standRejects(inflight[r].session)
     THEN /\ view' = WithMessage(createClientGameState(inflight[r].session, FALSE, FALSE, FALSE),
                                 "Invalid game state for stand action. Please start a new game.")
          /\ inflight' = [inflight EXCEPT ![r].at = "done"]
          /\ UNCHANGED store
     ELSE /\ store' = revealOn(inflight[r].session)
          /\ inflight' = [inflight EXCEPT ![r].at = "dealerTurn", ![r].session = store']
          /\ UNCHANGED view
  /\ lastAction' = "playerStand"
  /\ UNCHANGED <<pc, generated, uuid, dealt, call>>

\* One iteration of the dealer loop of request r: pop, push, persist.
standDraw(r) ==
  /\ inflight[r].op = "playerStand"
  /\ inflight[r].at = "dealerTurn"
  /\ calculateScore(inflight[r].session.dealerCards) < DealerStandsOn
  /\ store' = dealerDrawOn(inflight[r].session)
  /\ inflight' = [inflight EXCEPT ![r].session = store']
  /\ UNCHANGED <<view, lastAction, pc, generated, uuid, dealt, call>>

\* The rest of playerStand of request r once its loop exits.
standSettle(r) ==
  /\ inflight[r].op = "playerStand"
  /\ inflight[r].at = "dealerTurn"
  /\ ~(calculateScore(inflight[r].session.dealerCards) < DealerStandsOn)
  /\ store' = settled(inflight[r].session)
  /\ view' = createClientGameState(store', FALSE, FALSE, FALSE)
  /\ inflight' = [inflight EXCEPT ![r].at = "done", ![r].session = store']
  /\ UNCHANGED <<lastAction, pc, generated, uuid, dealt, call>>

\* A session is set up by initializeGame and placeBet, then the two requests
\* run on it.
OverlapNext ==
  \/ \E initialBalance \in InitialBalances : NoneInFlight /\ initializeGame(initialBalance)
  \/ \E bet \in BetInputs, sessionId \in SessionIdsRead : NoneInFlight /\ placeBet(bet, sessionId)
  \/ \E r \in Requests, op \in {"playerHit", "playerStand"} : getSession(r, op)
  \/ \E r \in Requests : hitReturn(r)
  \/ \E r \in Requests : standHeal(r)
  \/ \E r \in Requests : standReveal(r)
  \/ \E r \in Requests : standDraw(r)
  \/ \E r \in Requests : standSettle(r)

OverlapSpec == Init /\ [][OverlapNext]_vars

\* ------------------------------------------- game-logic functions on their own
\* The hands of at most MaxHand cards over a set of ranks.  Neither function
\* reads the suit.
HandsOver(rankSet) ==
  UNION {[1..n -> {[suit |-> "spades", rank |-> r] : r \in rankSet}] : n \in 0..MaxHand}

\* Every rank, for calculateScore.
ScoreRanks == {ranks[k] : k \in 1..Len(ranks)}

\* An ace, a pip card and a face card, for determineGameResult, which reads
\* the hands through calculateScore and their lengths: enough for naturals,
\* 21 in three and four cards, busts and ties.
ResultRanks == {"A", "5", "K"}

ScoreInit ==
  /\ NoSessionYet
  /\ call \in {[fn |-> "calculateScore", cards |-> h] : h \in HandsOver(ScoreRanks)}

applyCalculateScore ==
  /\ call.fn = "calculateScore"
  /\ "result" \notin DOMAIN call
  /\ call' = [fn |-> call.fn, cards |-> call.cards, result |-> calculateScore(call.cards)]
  /\ UNCHANGED <<store, view, lastAction, pc, generated, uuid, dealt, inflight>>

ScoreSpec == ScoreInit /\ [][applyCalculateScore]_vars

ResultInit ==
  /\ NoSessionYet
  /\ call \in {[fn |-> "determineGameResult", playerCards |-> p, dealerCards |-> d] :
                 p \in HandsOver(ResultRanks), d \in HandsOver(ResultRanks)}

applyDetermineGameResult ==
  /\ call.fn = "determineGameResult"
  /\ "result" \notin DOMAIN call
  /\ call' = [fn |-> call.fn,
              playerCards |-> call.playerCards,
              dealerCards |-> call.dealerCards,
              result |-> determineGameResult(call.playerCards, call.dealerCards)]
  /\ UNCHANGED <<store, view, lastAction, pc, generated, uuid, dealt, inflight>>

ResultSpec == ResultInit /\ [][applyDetermineGameResult]_vars

\* ----------------------------------------------------------------- claims
HasSession == store # NoSession

HasServerSeed(v) ==
  ("provablyFair" \in DOMAIN v) /\ ("serverSeed" \in DOMAIN v.provablyFair)

\* C1: placeBet takes effect only in gameState betting: on an existing
\* session in playing, dealerTurn or gameOver it returns a view with a message
\* and leaves the persisted session as it was.
C1_PlaceBetOnlyWhenBetting ==
  [][(/\ lastAction' = "placeBet"
      /\ HasSession
      /\ store.gameState \in {"playing", "dealerTurn", "gameOver"})
     => (store' = store /\ view'.message # "")]_vars

\* C2: every view returned while gameState is betting, playing or dealerTurn
\* carries no serverSeed.
C2_ServerSeedWithheldUntilSettled ==
  (/\ lastAction # "none"
   /\ view.gameState \in {"betting", "playing", "dealerTurn"})
  => ~HasServerSeed(view)

\* The view of a round in progress, as placeBet and playerHit project it.
LiveView(session) ==
  IF lastAction = "placeBet"
  THEN createClientGameState(session, FALSE, TRUE, FALSE)
  ELSE createClientGameState(session, TRUE, FALSE, FALSE)

\* The session with card c in place of the dealer's hidden card.
WithHoleCard(session, c) ==
  [session EXCEPT !.dealerCards[2] = WithHidden(c, TRUE)]

\* C3: while the hole card is concealed (the view of a placeBet that dealt,
\* and of a playerHit that did not bust) the second dealer entry has no suit
\* and no rank, dealerScore is 0, and the view is the same whatever the hole
\* card is.
C3_ViewIndependentOfHoleCard ==
  (/\ lastAction \in {"placeBet", "playerHit"}
   /\ view.message = ""
   /\ view.gameState = "playing")
  => /\ DOMAIN view.dealerCards[2] \cap {"suit", "rank"} = {}
     /\ view.dealerScore = 0
     /\ \A k \in 1..DeckSize : LiveView(WithHoleCard(store, orderedDeck[k])) = view

\* C4: no two deals are shuffled from the same (serverSeed, clientSeed).
C4_SeedsNeverReused ==
  \A i, j \in 1..Len(dealt) : i # j => dealt[i] # dealt[j]

\* The edges of the round lifecycle, with the action that takes each.
LifecycleEdges ==
  {<<"betting", "playing", "placeBet">>,
   <<"playing", "gameOver", "playerHit">>,
   <<"playing", "dealerTurn", "playerStand">>,
   <<"dealerTurn", "gameOver", "playerStand">>,
   <<"gameOver", "betting", "newRound">>}

\* C5: the persisted gameState of a session changes only along the edges of
\* the lifecycle.
C5_OnlyLifecycleEdges ==
  [][(/\ HasSession
      /\ store' # NoSession
      /\ store'.id = store.id
      /\ store'.gameState # store.gameState)
     => <<store.gameState, store'.gameState, lastAction'>> \in LifecycleEdges]_vars

PayoutTable(bet, result) ==
  CASE result \in {"playerWin", "dealerBust"} -> 2 * bet
    [] result = "push" -> bet
    [] result = "blackjack" -> (5 * bet) \div 2
    [] result \in {"dealerWin", "bust"} -> 0

\* C7: playerStand leaves the balance alone until it settles; settling sets
\* gameOver, the result of determineGameResult on the final hands, completed,
\* and balance + payout(bet, result); and the balance of a session rises in no
\* other step, so a round is paid once.
C7_StandSettlesOnce ==
  [][/\ (pc' = "dealerTurn" => store'.balance = store.balance)
     /\ ((pc = "dealerTurn" /\ pc' = "idle")
          => /\ store'.gameState = "gameOver"
             /\ store'.gameResult = determineGameResult(store'.playerCards, store'.dealerCards)
             /\ store'.dealerCards = store.dealerCards
             /\ store'.playerCards = store.playerCards
             /\ store'.provablyFair.completed
             /\ store'.balance = store.balance + PayoutTable(store.bet, store'.gameResult)
             /\ view'.balance = store'.balance)
     /\ ((/\ HasSession
          /\ store' # NoSession
          /\ store'.id = store.id
          /\ store'.balance > store.balance)
          => /\ pc = "dealerTurn" /\ pc' = "idle"
             /\ store.gameResult = "null"
             /\ store'.gameResult # "null")]_vars

C7_Witness ==
  /\ HasSession
  /\ lastAction = "playerStand"
  /\ pc = "idle"
  /\ store.gameState = "gameOver"
  /\ store.gameResult = "blackjack"
  /\ store.bet = 4
  /\ store.balance = DefaultBalance + 6

\* The suits and ranks of a hand, without the hidden flags.
Faces(cards) == [k \in 1..Len(cards) |-> [suit |-> cards[k].suit, rank |-> cards[k].rank]]

\* playerStand has run to its end.
StandSettled ==
  IF HasSession
  THEN pc = "idle" /\ lastAction = "playerStand" /\ store.gameState = "gameOver"
  ELSE FALSE

\* C8: in the dealer's turn every dealer card is revealed; the dealer draws
\* the deck's last card exactly while the score is below 17 and not at all
\* from 17 on (soft 17 included); a hand of more than two cards scores below
\* 17 without its last card; the settled hand scores at least 17; and the
\* dealer's turn always ends.
C8_DealerDrawsBelow17 ==
  /\ [][/\ (pc' = "dealerTurn" =>
             /\ store'.gameState = "dealerTurn"
             /\ \A k \in 1..Len(store'.dealerCards) : ~IsHidden(store'.dealerCards[k]))
        /\ (store' # NoSession /\ Len(store'.dealerCards) > 2 =>
             calculateScore(ButLast(store'.dealerCards)) < 17)
        /\ (pc = "dealerTurn" =>
             IF calculateScore(store.dealerCards) < 17
             THEN /\ pc' = "dealerTurn"
                  /\ store.deck # <<>>
                  /\ store'.dealerCards = Append(store.dealerCards, Last(store.deck))
                  /\ store'.deck = ButLast(store.deck)
             ELSE /\ pc' = "idle"
                  /\ store'.gameState = "gameOver"
                  /\ store'.dealerCards = store.dealerCards
                  /\ store'.deck = store.deck
                  /\ calculateScore(store'.dealerCards) >= 17)]_vars
  /\ ((pc = "dealerTurn") ~> StandSettled)

C8_Witness ==
  /\ HasSession
  /\ lastAction = "playerStand"
  /\ store.gameState = "gameOver"
  /\ Len(store.dealerCards) = 4
  /\ calculateScore(store.dealerCards) >= 17

\* A dealer who stands on a soft 17 without drawing.
C8_WitnessSoft17 ==
  /\ HasSession
  /\ lastAction = "playerStand"
  /\ store.gameState = "gameOver"
  /\ Len(store.dealerCards) = 2
  /\ calculateScore(store.dealerCards) = 17
  /\ \E k \in 1..2 : store.dealerCards[k].rank = "A"

\* C9: playerHit in gameState playing moves the deck's last card, visible, to
\* the end of the player's hand; up to 21 the session stays playing and the
\* dealer's hand is untouched, its second card hidden; above 21 the session is
\* gameOver with result bust, the same two dealer cards all revealed, and the
\* balance unchanged.
C9_PlayerHit ==
  [][(/\ lastAction' = "playerHit"
      /\ HasSession
      /\ store.gameState = "playing")
     => /\ store.deck # <<>>
        /\ store'.playerCards = Append(store.playerCards, WithHidden(Last(store.deck), FALSE))
        /\ store'.deck = ButLast(store.deck)
        /\ store'.balance = store.balance
        /\ store'.bet = store.bet
        /\ Faces(store'.dealerCards) = Faces(store.dealerCards)
        /\ IF calculateScore(store'.playerCards) <= 21
           THEN /\ store'.gameState = "playing"
                /\ store'.gameResult = "null"
                /\ store'.dealerCards = store.dealerCards
                /\ IsHidden(store'.dealerCards[2])
                /\ view'.gameState = "playing"
           ELSE /\ store'.gameState = "gameOver"
                /\ store'.gameResult = "bust"
                /\ Len(store'.dealerCards) = 2
                /\ \A k \in 1..Len(store'.dealerCards) : ~IsHidden(store'.dealerCards[k])
                /\ view'.gameResult = "bust"
                /\ view'.balance = store.balance]_vars

C9_Witness ==
  /\ HasSession
  /\ lastAction = "playerHit"
  /\ store.gameState = "gameOver"
  /\ store.gameResult = "bust"
  /\ calculateScore(store.playerCards) > 21

\* A hit that leaves the round in play.
C9_WitnessNoBust ==
  /\ HasSession
  /\ lastAction = "playerHit"
  /\ store.gameState = "playing"
  /\ Len(store.playerCards) = 3

\* The cards of a sequence, as a set.
CardSet(cards) == {cards[k] : k \in 1..Len(cards)}

\* C10: placeBet(bet) with 0 < bet <= balance on a session in gameState
\* betting debits the balance by bet, sets bet, gameResult null and gameState
\* playing, and deals from the end of a fresh deck of the 52 cards: two dealer
\* cards, the first visible and the second hidden, then two visible player
\* cards, 48 cards remaining.
C10_PlaceBetDeals ==
  [][\A bet \in BetInputs, sessionId \in SessionIdInputs :
       (/\ placeBet(bet, sessionId)
        /\ HasSession
        /\ store.gameState = "betting"
        /\ 0 < bet /\ bet <= store.balance)
       => /\ store'.balance = store.balance - bet
          /\ store'.bet = bet
          /\ store'.gameResult = "null"
          /\ store'.gameState = "playing"
          /\ Len(store'.deck) = 48
          /\ Len(store'.dealerCards) = 2 /\ Len(store'.playerCards) = 2
          /\ ~IsHidden(store'.dealerCards[1]) /\ IsHidden(store'.dealerCards[2])
          /\ ~IsHidden(store'.playerCards[1]) /\ ~IsHidden(store'.playerCards[2])
          /\ LET fresh == store'.deck \o <<store'.playerCards[2], store'.playerCards[1],
                                           store'.dealerCards[2], store'.dealerCards[1]>>
             IN /\ Len(fresh) = 52
                /\ CardSet(Faces(fresh)) = CardSet(orderedDeck)
                /\ Faces(fresh) = createProvablyFairDeck(store.provablyFair.serverSeed,
                                                         store.provablyFair.clientSeed)
          /\ view'.balance = store'.balance
          /\ view'.gameState = "playing"]_vars

C10_Witness ==
  /\ HasSession
  /\ lastAction = "placeBet"
  /\ store.gameState = "playing"
  /\ store.bet = 2
  /\ store.balance = 0
  /\ Len(store.deck) = 48
  /\ view.message = ""

\* C11: newRound on a session in gameOver keeps the balance, empties both
\* hands, sets bet 0, gameResult null and gameState betting, and replaces the
\* provably-fair record: new gameId, new serverSeed and clientSeed, the hash
\* of the new serverSeed, nonce 0, completed false; the bet of the round just
\* ended is in the returned view only.
C11_NewRoundResets ==
  [][(/\ lastAction' = "newRound"
      /\ HasSession
      /\ store.gameState = "gameOver")
     => /\ store'.id = store.id
        /\ store'.balance = store.balance
        /\ store'.dealerCards = <<>> /\ store'.playerCards = <<>>
        /\ store'.bet = 0
        /\ store'.gameResult = "null"
        /\ store'.gameState = "betting"
        /\ store'.provablyFair.gameId # store.provablyFair.gameId
        /\ store'.provablyFair.serverSeed # store.provablyFair.serverSeed
        /\ store'.provablyFair.clientSeed # store.provablyFair.clientSeed
        /\ store'.provablyFair.serverSeed \notin generated
        /\ store'.provablyFair.clientSeed \notin generated
        /\ store'.provablyFair.hashedServerSeed = hashSeed(store'.provablyFair.serverSeed)
        /\ store'.provablyFair.nonce = 0
        /\ ~store'.provablyFair.completed
        /\ view'.bet = store.bet
        /\ view'.balance = store.balance
        /\ view'.gameState = "betting"
        /\ view'.dealerCards = <<>> /\ view'.playerCards = <<>>]_vars

\* A new round after a natural paid 3:2 on a bet of 4.
C11_Witness ==
  /\ HasSession
  /\ lastAction = "newRound"
  /\ store.gameState = "betting"
  /\ store.bet = 0
  /\ view.bet = 4
  /\ store.balance = DefaultBalance + 6
  /\ ~store.provablyFair.completed

\* C12: a rejected action leaves the persisted session as it was: on an
\* existing session, placeBet with bet <= 0 or bet > balance, and playerHit in
\* any gameState other than playing, return a view with a non-empty message
\* and change no field of the session.
C12_RejectedActionsChangeNothing ==
  [][/\ \A bet \in BetInputs, sessionId \in SessionIdInputs :
          (/\ placeBet(bet, sessionId)
           /\ HasSession
           /\ (bet <= 0 \/ bet > store.balance))
          => (store' = store /\ view'.message # "")
     /\ (/\ lastAction' = "playerHit"
         /\ HasSession
         /\ store.gameState # "playing")
        => (store' = store /\ view'.message # "")]_vars

\* playerHit rejected in betting with bet 0.
C12_Witness ==
  /\ HasSession
  /\ lastAction = "playerHit"
  /\ store.gameState = "betting"
  /\ store.bet = 0
  /\ view.message = "Invalid game state for hit action"
  /\ view.bet = 0

\* placeBet rejected for a bet above the balance.
C12_WitnessInvalidBet ==
  /\ HasSession
  /\ lastAction = "placeBet"
  /\ store.balance = 2
  /\ store.gameState = "betting"
  /\ view.message = "Invalid bet amount"

\* The cards of a round in the order they were dealt: dealer 1, dealer 2,
\* player 1, player 2, the hits, the dealer's draws.
DealOrder(session) ==
  SubSeq(session.dealerCards, 1, 2) \o session.playerCards
    \o SubSeq(session.dealerCards, 3, Len(session.dealerCards))

\* C13: in every gameOver state the cards of the round, in deal order, are
\* the cards popped one after the other from the end of the deck that
\* createProvablyFairDeck yields for the serverSeed and clientSeed of the
\* session's provably-fair record, and the rest of that deck is the session's
\* deck.
C13_DealtCardsReproducible ==
  (HasSession /\ store.gameState = "gameOver")
  => LET deck == createProvablyFairDeck(store.provablyFair.serverSeed,
                                        store.provablyFair.clientSeed)
         dealtCards == Faces(DealOrder(store))
     IN /\ Len(dealtCards) >= 4
        /\ \A i \in 1..Len(dealtCards) : dealtCards[i] = deck[Len(deck) + 1 - i]
        /\ store.deck = SubSeq(deck, 1, Len(deck) - Len(dealtCards))

\* A settled round with a hit and a dealer draw.
C13_Witness ==
  /\ HasSession
  /\ store.gameState = "gameOver"
  /\ store.provablyFair.completed
  /\ Len(store.playerCards) >= 3
  /\ Len(store.dealerCards) >= 3

\* C19: in every state with gameState gameOver the provably-fair record is
\* completed, and the view of the action that ended the round carries the
\* serverSeed, whether the round ended in playerStand or by a bust in
\* playerHit.
C19_SettledRoundsVerifiable ==
  (HasSession /\ store.gameState = "gameOver")
  => /\ store.provablyFair.completed
     /\ (lastAction \in {"playerHit", "playerStand"} /\ view.gameState = "gameOver"
           => HasServerSeed(view))

C20_WitnessStand ==
  /\ HasSession
  /\ lastAction = "playerStand"
  /\ store.gameState = "gameOver"
  /\ Len(store.playerCards) = 3
  /\ store.gameResult \in {"playerWin", "dealerWin", "dealerBust", "push"}

\* C18: no draw is made from an empty deck: the deck placeBet would build for
\* the session's record has the four cards of the deal, a session in playing
\* (where playerHit draws) has a non-empty deck, and so has the dealer's turn
\* whenever the dealer is about to draw; the deck and the two hands of a round
\* in play are together the 52 cards.
C18_NoDeckUnderflow ==
  HasSession
  => /\ Len(provablyFairDeck[store.provablyFair.serverSeed,
                             store.provablyFair.clientSeed]) >= 4
     /\ (store.gameState = "playing" => store.deck # <<>>)
     /\ (pc = "dealerTurn" /\ calculateScore(store.dealerCards) < DealerStandsOn
           => store.deck # <<>>)
     /\ (store.gameState \in {"playing", "dealerTurn"}
           => Len(store.deck) + Len(store.playerCards) + Len(store.dealerCards) = DeckSize)

\* The dealer about to draw a second card.
C18_Witness ==
  /\ HasSession
  /\ pc = "dealerTurn"
  /\ Len(store.dealerCards) = 3
  /\ calculateScore(store.dealerCards) < DealerStandsOn
  /\ Len(store.deck) = DeckSize - 3 - Len(store.playerCards)
  /\ store.deck # <<>>

\* The value of a card that is not an ace.
FaceValue(rank) ==
  CASE rank \in {"J", "Q", "K"} -> 10
    [] rank = "2" -> 2 [] rank = "3" -> 3 [] rank = "4" -> 4 [] rank = "5" -> 5
    [] rank = "6" -> 6 [] rank = "7" -> 7 [] rank = "8" -> 8 [] rank = "9" -> 9
    [] rank = "10" -> 10

\* The total of a hand under a choice of 1 or 11 for each of its aces.
RECURSIVE TotalUnder(_, _, _)
TotalUnder(cards, aceValues, k) ==
  IF k > Len(cards) THEN 0
  ELSE (IF cards[k].rank = "A" THEN aceValues[k] ELSE FaceValue(cards[k].rank))
       + TotalUnder(cards, aceValues, k + 1)

\* Every total the hand can be counted as.
Totals(cards) ==
  LET aces == {k \in 1..Len(cards) : cards[k].rank = "A"}
  IN {TotalUnder(cards, aceValues, 1) : aceValues \in [aces -> {1, 11}]}

\* The largest total not above 21, or the total with every ace as 1.
BestTotal(cards) ==
  LET within == {t \in Totals(cards) : t <= 21}
  IN IF within # {}
     THEN CHOOSE t \in within : \A u \in within : u <= t
     ELSE CHOOSE t \in Totals(cards) : \A u \in Totals(cards) : t <= u

\* The hand with cards k and k + 1 exchanged.  Every reordering of a hand is
\* a sequence of such exchanges, and every hand of the lengths drawn is drawn.
Exchanged(cards, k) == [cards EXCEPT ![k] = cards[k + 1], ![k + 1] = cards[k]]

\* C17: calculateScore(cards) is the largest total not above 21 obtainable by
\* counting each ace as 1 or 11, the other cards at face value with J, Q, K as
\* 10, or the total with every ace as 1 when there is none; and it is the same
\* for every order of the cards.
C17_ScoreIsBestTotal ==
  (call.fn = "calculateScore" /\ "result" \in DOMAIN call)
  => /\ call.result = BestTotal(call.cards)
     /\ \A k \in 1..(Len(call.cards) - 1) :
          calculateScore(Exchanged(call.cards, k)) = call.result

\* Two aces and a nine: one ace as 11, the other as 1.
C17_Witness ==
  /\ call.fn = "calculateScore"
  /\ "result" \in DOMAIN call
  /\ Len(call.cards) = 3
  /\ call.cards[1].rank = "A" /\ call.cards[2].rank = "A" /\ call.cards[3].rank = "9"
  /\ call.result = 21

\* A hand over 21 with both its aces as 1.
C17_WitnessBust ==
  /\ call.fn = "calculateScore"
  /\ "result" \in DOMAIN call
  /\ Len(call.cards) = 4
  /\ call.cards[1].rank = "Q" /\ call.cards[2].rank = "A"
  /\ call.cards[3].rank = "J" /\ call.cards[4].rank = "A"
  /\ call.result = 22

\* A 21 in exactly two cards.
TwoCard21(cards) == Len(cards) = 2 /\ BestTotal(cards) = 21

\* The four rules of the claim, in their order.
RuleOutcome(playerCards, dealerCards) ==
  LET playerTotal == BestTotal(playerCards)
      dealerTotal == BestTotal(dealerCards)
  IN CASE playerTotal > 21 -> "bust"
       [] playerTotal <= 21 /\ dealerTotal > 21 -> "dealerBust"
       [] playerTotal <= 21 /\ dealerTotal <= 21 /\ TwoCard21(playerCards)
            -> (IF TwoCard21(dealerCards) THEN "push" ELSE "blackjack")
       [] playerTotal <= 21 /\ dealerTotal <= 21 /\ ~TwoCard21(playerCards)
            -> (CASE playerTotal > dealerTotal -> "playerWin"
                  [] playerTotal < dealerTotal -> "dealerWin"
                  [] playerTotal = dealerTotal -> "push")

\* C16: for every pair of hands determineGameResult is the outcome of the
\* four rules in order: player above 21 is bust; else dealer above 21 is
\* dealerBust; else a player 21 in two cards is push against a dealer 21 in
\* two cards and blackjack otherwise, a dealer 21 in three or more cards
\* included; else the higher total wins and equal totals are push.
C16_ResultFollowsRules ==
  (call.fn = "determineGameResult" /\ "result" \in DOMAIN call)
  => /\ call.result = RuleOutcome(call.playerCards, call.dealerCards)
     /\ (TwoCard21(call.playerCards)
         /\ BestTotal(call.dealerCards) = 21 /\ Len(call.dealerCards) >= 3
           => call.result = "blackjack")

\* A natural against a dealer 21 in three cards.
C16_Witness ==
  /\ call.fn = "determineGameResult"
  /\ "result" \in DOMAIN call
  /\ Len(call.playerCards) = 2
  /\ call.playerCards[1].rank = "A" /\ call.playerCards[2].rank = "K"
  /\ Len(call.dealerCards) = 3
  /\ calculateScore(call.dealerCards) = 21
  /\ call.result = "blackjack"

\* A 21 in three cards against a dealer natural: equal totals, push.
C16_WitnessPush ==
  /\ call.fn = "determineGameResult"
  /\ "result" \in DOMAIN call
  /\ Len(call.playerCards) = 3 /\ calculateScore(call.playerCards) = 21
  /\ Len(call.dealerCards) = 2 /\ calculateScore(call.dealerCards) = 21
  /\ call.result = "push"

\* C14: when the store becomes unavailable at a persist step of playerStand,
\* the persisted session is the one the action loaded: between actions it is
\* never in gameState dealerTurn, and while it has no gameResult the dealer
\* holds two cards, the second hidden.
C14_NoPartialMutation ==
  (HasSession /\ pc = "idle")
  => /\ store.gameState # "dealerTurn"
     /\ (store.gameResult = "null" /\ store.dealerCards # <<>>
           => /\ store.gameState = "playing"
              /\ Len(store.dealerCards) = 2
              /\ IsHidden(store.dealerCards[2]))

\* playerStand's dealer loop and settlement, run to the end on a session.
RECURSIVE dealerTurnOn(_)
dealerTurnOn(session) ==
  IF calculateScore(session.dealerCards) < DealerStandsOn
  THEN dealerTurnOn(dealerDrawOn(session))
  ELSE settled(session)

\* The session an action persists when it runs alone on a session.
Alone(op, session) ==
  IF op = "playerHit"
  THEN (IF session.gameState # "playing" THEN session ELSE hitOn(session))
  ELSE (IF standRejects(session) THEN session ELSE dealerTurnOn(revealOn(session)))

BothDone == \A r \in Requests : inflight[r] # NoRequest /\ inflight[r].at = "done"

\* C15: when two requests on one session (playerHit and playerHit, playerHit
\* and playerStand) overlap, the session persisted once both are done is the
\* one left by running the two actions one after the other in some order; and
\* no step of either takes the persisted session out of gameOver.
C15_OverlapIsSerial ==
  /\ [](BothDone =>
          \/ store = Alone(inflight["b"].op, Alone(inflight["a"].op, inflight["a"].base))
          \/ store = Alone(inflight["a"].op, Alone(inflight["b"].op, inflight["a"].base)))
  /\ [][(/\ HasSession
         /\ ~NoneInFlight
         /\ store.gameState = "gameOver")
        => store'.gameState = "gameOver"]_vars

====
